---- MODULE Spec2Model ----
(***************************************************************************)
(* Aurora alert (src/aurora_alert.py): the run orchestrator main(), the    *)
(* cooldown ledger, the peak window locator, the nowcast feed normalizer   *)
(* and the priority rule.                                                  *)
(*                                                                         *)
(* Units: times are epoch seconds; Kp values are tenths of the index       *)
(* (6.5 is 65), so every float comparison of the source is an integer      *)
(* comparison here; cloud cover is a percentage.                           *)
(***************************************************************************)
EXTENDS Integers, Sequences, FiniteSets, TLC

VARIABLES
    fs,                 \* the disk: ledger file and its ".tmp" sibling
    fs0,                \* the disk as it was when the current run loaded the ledger
    pc,                 \* position of the process in main() / save_state()
    err,                \* which call raised, when the run ended by an exception
    cfg,                \* now_cd, forecast_cd, nowcast_enabled (read from the environment)
    state,              \* main(): the ledger dict in memory
    now_ts,             \* main(): utc_now_ts()
    gate,               \* main(): is_night_now, cloud_now
    kp_current,         \* main(): kp_now()[0]
    fc,                 \* main(): kp_fc_max, kp_fc_time, kp_fc_dt
    nowcast_feed,       \* what NOWCAST_URL answered in this run
    nowcast,            \* main(): nowcast_kp, nowcast_time
    meteo,              \* what the hourly sky forecast answered in this run
    send_now_flag,      \* main()
    send_forecast_flag, \* main()
    best,               \* main(): ok, best_cloud, best_time_local
    priority,           \* build_email_pro(): the traffic light of the subject
    written,            \* save_state(): how much of the dump is in the file so far
    fn_in,              \* pure-function harness: the arguments
    fn_out,             \* pure-function harness: the result
    clock,              \* what utc_now_ts() returns at this moment
    env,                \* the cooldowns configured in the environment, run after run
    outbox              \* per class, the run timestamps of the alerts send_gmail delivered

vars == <<fs, fs0, pc, err, cfg, state, now_ts, gate, kp_current, fc, nowcast_feed,
          nowcast, meteo, send_now_flag, send_forecast_flag, best, priority,
          written, fn_in, fn_out, clock, env, outbox>>

\* the world around the runs
world == <<clock, env, outbox>>

-----------------------------------------------------------------------------
(* Bounds and program constants *)

\* the clock and the ledger timestamps range over 0, 1h, .., MaxTick hours
MaxTick == 2
MaxSeries == 3
MaxStr == 3

\* seconds per hour
HOUR == 3600

\* os.getenv defaults of main(), Kp in tenths, the cooldown in seconds
now_min_kp == 60
forecast_min_kp == 60
max_cloud == 70
peak_window_h == 2
now_cd_default == 7200

\* pick_priority_emoji: nowcast_kp >= 7.0
NowcastHighKp == 70

\* kp_forecast_max_next_hours: best_kp = -1.0 when no row is in the horizon
NoForecastKp == -10

Times == {k * HOUR : k \in 0..MaxTick}

\* NOW_COOLDOWN_SECONDS / FORECAST_COOLDOWN_SECONDS are int(os.getenv(..)): any integer
Cooldowns == {-HOUR, 0, now_cd_default}

Classes == {"NOW", "FORECAST"}

\* Optional[...] values
None == [some |-> FALSE, v |-> 0]
Some(x) == [some |-> TRUE, v |-> x]

-----------------------------------------------------------------------------
(* The ledger dict.  top: whether the loaded JSON value is a dict;          *)
(* last_sent: whether state["last_sent"] is a dict (an absent key reads as  *)
(* the empty dict, as state.get("last_sent", {}) does); sent[c]: the entry  *)
(* of class c, absent, an integer, or a value int() rejects; last_peak:     *)
(* state["forecast"]["last_peak_time"], "" when absent.                     *)

Absent == [tag |-> "absent", v |-> 0]
IntEntry(t) == [tag |-> "int", v |-> t]
BadEntry == [tag |-> "bad", v |-> 0]

EmptyLedger ==
    [top |-> "dict", last_sent |-> "dict",
     sent |-> [c \in Classes |-> Absent], last_peak |-> ""]

\* forecast time tags (NOAA "time_tag" strings) and the instants they parse to
PeakA == "1970-01-01 04:00:00"
PeakB == "1970-01-01 05:00:00"
PeakIds == {PeakA, PeakB}

parse_noaa_time_utc(time_tag) ==
    IF time_tag = PeakA THEN Some(4 * HOUR)
    ELSE IF time_tag = PeakB THEN Some(5 * HOUR)
    ELSE None

\* ledgers as main() writes them: FORECAST and the peak identity are set together
WrittenLedgers ==
    {[top |-> "dict", last_sent |-> "dict",
      sent |-> [c \in Classes |-> IF c = "NOW" THEN n ELSE f.e], last_peak |-> f.p] :
        n \in {Absent} \cup {IntEntry(t) : t \in Times},
        f \in {[e |-> Absent, p |-> ""]}
              \cup {[e |-> IntEntry(t), p |-> p] : t \in Times, p \in PeakIds}}

\* valid JSON that is not a ledger: not a dict, last_sent not a dict, a non-integer entry
NonDictLedger == [EmptyLedger EXCEPT !.top = "other"]
MalformedLedgers ==
    {NonDictLedger,
     [EmptyLedger EXCEPT !.last_sent = "other"],
     [EmptyLedger EXCEPT !.sent["NOW"] = BadEntry],
     [EmptyLedger EXCEPT !.sent["FORECAST"] = BadEntry]}

-----------------------------------------------------------------------------
(* Files.  A file's content is the sequence of tokens json.dump writes.     *)

Tok(k, a, b, n) == [k |-> k, a |-> a, b |-> b, n |-> n]
OpenTok == Tok("{", "", "", 0)
CloseTok == Tok("}", "", "", 0)
ListTok == Tok("[]", "", "", 0)

NoFile == [exists |-> FALSE, content |-> <<>>]
File(content) == [exists |-> TRUE, content |-> content]

EntryToks(st, c) ==
    IF st.sent[c].tag = "absent" THEN <<>>
    ELSE <<Tok("last_sent", c, st.sent[c].tag, st.sent[c].v)>>

\* json.dump(state, f, ..): the tokens of the dict, in order
Serialize(st) ==
    IF st.top # "dict" THEN <<ListTok>>
    ELSE <<OpenTok>>
         \o (IF st.last_sent # "dict" THEN <<Tok("last_sent", "", "other", 0)>>
             ELSE EntryToks(st, "NOW") \o EntryToks(st, "FORECAST"))
         \o (IF st.last_peak = "" THEN <<>> ELSE <<Tok("forecast", st.last_peak, "", 0)>>)
         \o <<CloseTok>>

\* json.load accepts the content: a complete JSON value
IsJson(content) ==
    \/ content = <<ListTok>>
    \/ /\ Len(content) >= 2
       /\ content[1] = OpenTok
       /\ content[Len(content)] = CloseTok
       /\ \A i \in 2..(Len(content) - 1) : content[i].k \in {"last_sent", "forecast"}

\* json.load(f): the value the tokens denote
FromJson(content) ==
    IF content = <<ListTok>> THEN NonDictLedger
    ELSE LET body == {content[i] : i \in 2..(Len(content) - 1)}
             ls == {t \in body : t.k = "last_sent"}
             pk == {t \in body : t.k = "forecast"}
         IN [top |-> "dict",
             last_sent |-> IF \E t \in ls : t.b = "other" THEN "other" ELSE "dict",
             sent |-> [c \in Classes |->
                         IF \E t \in ls : t.a = c
                         THEN LET t == CHOOSE u \in ls : u.a = c
                              IN [tag |-> t.b, v |-> t.n]
                         ELSE Absent],
             last_peak |-> IF pk = {} THEN "" ELSE (CHOOSE t \in pk : TRUE).a]

\* load_state(path): {} when the file is missing or json.load raises
load_state(f) ==
    IF ~f.exists THEN EmptyLedger
    ELSE IF ~IsJson(f.content) THEN EmptyLedger
    ELSE FromJson(f.content)

PATH == "alert_state.json"
TMP == "alert_state.json.tmp"
Paths == {PATH, TMP}

InPlacePath(path) == path

\* save_state: tmp = path + ".tmp"
TmpPath(path) == TMP

\* open(tmp, "w"): the file exists and is empty
open_w(disk, p) == [disk EXCEPT ![p] = File(<<>>)]

\* one write() of the dump: the next token reaches the file
write_tok(disk, p, tok) == [disk EXCEPT ![p] = File(disk[p].content \o <<tok>>)]

\* os.replace(src, dst): dst is src's file, src is gone (a no-op when they are the same)
os_replace(disk, src, dst) ==
    IF src = dst THEN disk
    ELSE [disk EXCEPT ![dst] = disk[src], ![src] = NoFile]

\* the dump written in full
write_all(disk, p, toks) == [disk EXCEPT ![p] = File(disk[p].content \o toks)]

\* save_state(path, state), run to completion
save_state(disk, path, st) ==
    os_replace(write_all(open_w(disk, TmpPath(path)), TmpPath(path), Serialize(st)),
               TmpPath(path), path)

-----------------------------------------------------------------------------
(* Cooldown and dedupe.  A call that can raise returns [raised, ok].        *)

Raised == [raised |-> TRUE, ok |-> FALSE]
Returned(b) == [raised |-> FALSE, ok |-> b]

\* state.get("last_sent", {}).get(key, 0) cannot be evaluated, or int() rejects it
LastSentRaises(st, key) ==
    \/ st.top # "dict"
    \/ st.last_sent # "dict"
    \/ st.sent[key].tag = "bad"

\* int(state.get("last_sent", {}).get(key, 0))
last_ts(st, key) == IF st.sent[key].tag = "int" THEN st.sent[key].v ELSE 0

CanSendIgnoresCooldown(st, key, cooldown_seconds, now) ==
    IF LastSentRaises(st, key) THEN Raised
    ELSE Returned(now - last_ts(st, key) >= 0)

CanSendReversed(st, key, cooldown_seconds, now) ==
    IF LastSentRaises(st, key) THEN Raised
    ELSE Returned(last_ts(st, key) - now >= cooldown_seconds)

CanSendStrict(st, key, cooldown_seconds, now) ==
    IF LastSentRaises(st, key) THEN Raised
    ELSE Returned(now - last_ts(st, key) > cooldown_seconds)

can_send_now(st, key, cooldown_seconds, now) ==
    IF LastSentRaises(st, key) THEN Raised
    ELSE Returned(now - last_ts(st, key) >= cooldown_seconds)

\* state.setdefault("last_sent", {}); state["last_sent"][key] = now_ts
\* a mark that stores the timestamp as text
MarkSentAsText(st, key, now) == [st EXCEPT !.sent[key] = BadEntry]

\* a mark that keeps an entry the class already has
MarkSentKeepsFirst(st, key, now) ==
    IF st.sent[key].tag = "int" THEN st ELSE [st EXCEPT !.sent[key] = IntEntry(now)]

mark_sent(st, key, now) ==
    [st EXCEPT !.sent[key] = IntEntry(now)]

ForecastBypassOnNewPeak(st, peak_time, now, cooldown_seconds) ==
    IF st.top # "dict" THEN Raised
    ELSE IF st.last_peak # peak_time THEN Returned(TRUE)
    ELSE can_send_now(st, "FORECAST", cooldown_seconds, now)

\* state.get("forecast", {}).get("last_peak_time") raises on a non-dict; both
\* branches of the comparison make the same call
should_send_forecast(st, peak_time, now, cooldown_seconds) ==
    IF st.top # "dict" THEN Raised
    ELSE IF st.last_peak # peak_time
         THEN can_send_now(st, "FORECAST", cooldown_seconds, now)
         ELSE can_send_now(st, "FORECAST", cooldown_seconds, now)

\* state.setdefault("forecast", {}); state["forecast"]["last_peak_time"] = peak_time
mark_forecast_peak(st, peak_time) ==
    [st EXCEPT !.last_peak = peak_time]

-----------------------------------------------------------------------------
(* Priority *)

PriorityIgnoresNowcast(now_flag, forecast_flag, now_gate_ok, best_ok, nowcast_kp) ==
    IF now_flag /\ now_gate_ok THEN "High"
    ELSE IF (~now_flag) /\ forecast_flag /\ best_ok THEN "Medium"
    ELSE "Low"

\* "High" is the green light, "Medium" the yellow one, "Low" the red one
pick_priority_emoji(now_flag, forecast_flag, now_gate_ok, best_ok, nowcast_kp) ==
    IF nowcast_kp.some /\ nowcast_kp.v >= NowcastHighKp /\ now_gate_ok THEN "High"
    ELSE IF now_flag /\ now_gate_ok THEN "High"
    ELSE IF (~now_flag) /\ forecast_flag /\ best_ok THEN "Medium"
    ELSE "Low"

\* build_email_pro: now_gate_ok
\* the gate read with is_day in place of is_night
NowGateOkByDay(g) == ~g.is_night /\ g.cloud <= max_cloud

NowGateOk(g) == g.is_night /\ g.cloud <= max_cloud

\* build_email_pro: best_ok
BestOk(b) == b.time.some /\ b.cloud.some /\ b.cloud.v <= max_cloud

-----------------------------------------------------------------------------
(* The nowcast feed.  A JSON scalar is [t, n, s]: t its type ("null",      *)
(* "num", "str", "list", "other"), n a number in tenths, s a string as its  *)
(* sequence of characters.  A list element is [kind, cells, rec]: a list    *)
(* (its cells), a dict (rec, from keys to scalars) or a scalar.             *)

NoSeq == [some |-> FALSE, v |-> <<>>]

JNull == [t |-> "null", n |-> 0, s |-> <<>>]
JNum(n) == [t |-> "num", n |-> n, s |-> <<>>]
JStr(s) == [t |-> "str", n |-> 0, s |-> s]
JList == [t |-> "list", n |-> 0, s |-> <<>>]

NoRec == [k \in {} |-> JNull]
RowItem(cells) == [kind |-> "list", cells |-> cells, rec |-> NoRec]
RecItem(rec) == [kind |-> "dict", cells |-> <<>>, rec |-> rec]
ScalarItem == [kind |-> "scalar", cells |-> <<>>, rec |-> NoRec]

Digits == {"0", "1", "2", "3", "4", "5", "6", "7", "8", "9"}
DigitVal(c) ==
    CASE c = "0" -> 0 [] c = "1" -> 1 [] c = "2" -> 2 [] c = "3" -> 3 [] c = "4" -> 4
      [] c = "5" -> 5 [] c = "6" -> 6 [] c = "7" -> 7 [] c = "8" -> 8 [] c = "9" -> 9

\* v.strip()
RECURSIVE lstrip(_)
lstrip(s) == IF s # <<>> /\ Head(s) = " " THEN lstrip(Tail(s)) ELSE s
RECURSIVE rstrip(_)
rstrip(s) ==
    IF s # <<>> /\ s[Len(s)] = " " THEN rstrip(SubSeq(s, 1, Len(s) - 1)) ELSE s
strip(s) == rstrip(lstrip(s))

\* .replace(",", ".")
comma_to_dot(s) == [i \in 1..Len(s) |-> IF s[i] = "," THEN "." ELSE s[i]]

\* the index after the run of digits that starts at i
RECURSIVE DigitsEnd(_, _)
DigitsEnd(s, i) == IF i <= Len(s) /\ s[i] \in Digits THEN DigitsEnd(s, i + 1) ELSE i

\* (?:\d+\.?\d*|\d*\.?\d+) at j: the index after the match, 0 when there is none
NumberAt(s, j) ==
    IF j <= Len(s) /\ s[j] \in Digits
    THEN LET d == DigitsEnd(s, j)
         IN IF d <= Len(s) /\ s[d] = "." THEN DigitsEnd(s, d + 1) ELSE d
    ELSE IF j + 1 <= Len(s) /\ s[j] = "." /\ s[j + 1] \in Digits
         THEN DigitsEnd(s, j + 1)
         ELSE 0

\* [-+]?(?:...) at i
MatchAt(s, i) ==
    IF i <= Len(s) /\ s[i] \in {"-", "+"} THEN NumberAt(s, i + 1) ELSE NumberAt(s, i)

\* re.search: the leftmost position where the pattern matches, 0 when none does
RECURSIVE SearchFrom(_, _)
SearchFrom(s, i) ==
    IF i > Len(s) THEN 0
    ELSE IF MatchAt(s, i) # 0 THEN i
    ELSE SearchFrom(s, i + 1)

RECURSIVE IntOf(_)
IntOf(ds) == IF ds = <<>> THEN 0 ELSE 10 * IntOf(SubSeq(ds, 1, Len(ds) - 1)) + DigitVal(ds[Len(ds)])

\* float(m.group(0)) in tenths; exact for a match with at most one fractional digit
FloatOf(m) ==
    LET neg == m # <<>> /\ m[1] = "-"
        body == IF m # <<>> /\ m[1] \in {"-", "+"} THEN Tail(m) ELSE m
        e == DigitsEnd(body, 1)
        ip == SubSeq(body, 1, e - 1)
        fp == SubSeq(body, e + 1, Len(body))
        mag == 10 * IntOf(ip) + (IF fp = <<>> THEN 0 ELSE DigitVal(fp[1]))
    IN IF neg THEN 0 - mag ELSE mag

to_kp_float(v) ==
    IF v.t = "num" THEN Some(v.n)
    ELSE IF v.t = "str"
         THEN LET s == comma_to_dot(strip(v.s))
                  i == SearchFrom(s, 1)
              IN IF i = 0 THEN None ELSE Some(FloatOf(SubSeq(s, i, MatchAt(s, i) - 1)))
         ELSE None

\* str(v) of a time value
py_str(v) ==
    IF v.t = "str" THEN v.s
    ELSE IF v.t = "null" THEN <<"N", "o", "n", "e">>
    ELSE <<"?">>

KpKeys == <<"kp", "estimated_kp", "k_index", "kp_index", "kp_value", "value">>
TimeKeys == <<"time_tag", "time", "datetime", "timestamp", "date">>
ContainerKeys == <<"data", "values", "k_index", "planetary_k_index", "results">>

\* for k in keys: if k in d and d.get(k) is not None: take it and break
RECURSIVE FirstPresent(_, _, _)
FirstPresent(rec, keys, i) ==
    IF i > Len(keys) THEN JNull
    ELSE IF keys[i] \in DOMAIN rec /\ rec[keys[i]].t # "null" THEN rec[keys[i]]
    ELSE FirstPresent(rec, keys, i + 1)

Reading(kp, time) == [raised |-> FALSE, kp |-> kp, time |-> time]
NoReading == Reading(None, NoSeq)
ParseRaised == [raised |-> TRUE, kp |-> None, time |-> NoSeq]

\* the key lookup shared by pick_from_list_of_dicts and the single-record case
pick_from_record(rec) ==
    LET kp_val == FirstPresent(rec, KpKeys, 1)
        time_val == FirstPresent(rec, TimeKeys, 1)
    IN IF kp_val.t = "null" \/ time_val.t = "null" THEN NoReading
       ELSE IF ~to_kp_float(kp_val).some THEN NoReading
       ELSE Reading(to_kp_float(kp_val), Some(py_str(time_val)))

pick_from_list_of_dicts(items) ==
    IF items = <<>> THEN NoReading
    ELSE IF items[Len(items)].kind # "dict" THEN NoReading
    ELSE pick_from_record(items[Len(items)].rec)

\* the first container key that holds a list: 0 when none does
RECURSIVE ContainerAt(_, _)
ContainerAt(rec, i) ==
    IF i > Len(ContainerKeys) THEN 0
    ELSE IF ContainerKeys[i] \in DOMAIN rec /\ rec[ContainerKeys[i]].t = "list" THEN i
    ELSE ContainerAt(rec, i + 1)

\* the body of kp_nowcast's try block, after fetch_json returned data
nowcast_parse(data) ==
    IF data.shape = "list" /\ data.items # <<>> /\ data.items[1].kind = "list"
    THEN LET rows == Tail(data.items)
             last == rows[Len(rows)]
         IN IF rows = <<>> THEN NoReading
            ELSE IF last.kind = "scalar" THEN ParseRaised
            ELSE IF last.kind = "dict"
                 THEN (IF Cardinality(DOMAIN last.rec) < 2 THEN NoReading ELSE ParseRaised)
            ELSE IF Len(last.cells) < 2 THEN NoReading
            ELSE IF ~to_kp_float(last.cells[2]).some THEN NoReading
            ELSE Reading(to_kp_float(last.cells[2]), Some(py_str(last.cells[1])))
    ELSE IF data.shape = "list" /\ (data.items = <<>> \/ data.items[1].kind = "dict")
    THEN pick_from_list_of_dicts(data.items)
    ELSE IF data.shape = "dict"
    THEN IF ContainerAt(data.rec, 1) # 0 THEN pick_from_list_of_dicts(data.items)
         ELSE pick_from_record(data.rec)
    ELSE NoReading

KpNowcastPropagates(feed) ==
    IF feed.fetch # "ok" THEN ParseRaised ELSE nowcast_parse(feed)

\* kp_nowcast(): except Exception: return None, None
kp_nowcast(feed) ==
    IF feed.fetch # "ok" THEN NoReading
    ELSE IF nowcast_parse(feed).raised THEN NoReading
    ELSE nowcast_parse(feed)

Feed(shape, items, rec) == [fetch |-> "ok", shape |-> shape, items |-> items, rec |-> rec]
FeedError == [fetch |-> "error", shape |-> "other", items |-> <<>>, rec |-> NoRec]
FeedUnfetched == [fetch |-> "unfetched", shape |-> "other", items |-> <<>>, rec |-> NoRec]

-----------------------------------------------------------------------------
(* The peak window locator.  An hourly time string "%Y-%m-%dT%H:%M" is      *)
(* [ok, w]: whether strptime accepts it, and the epoch of its wall-clock     *)
(* reading taken as UTC (dt_local_naive.replace(tzinfo=utc).timestamp()).    *)

TimeStr(w) == [ok |-> TRUE, w |-> w]
BadTimeStr == [ok |-> FALSE, w |-> 0]
NoTime == [some |-> FALSE, v |-> BadTimeStr]

Slot(ok, cloud, time) == [ok |-> ok, cloud |-> cloud, time |-> time]
NoSlot == Slot(FALSE, None, NoTime)

\* ts = int(dt_local_naive.replace(tzinfo=timezone.utc).timestamp()) + offset_sec
SampleTs(tstr, offset_sec) == tstr.w + offset_sec

\* a loop that replaces the best sample on an equal cloud cover as well
RECURSIVE ScanSlotsLastOfEqual(_, _, _, _, _, _)
ScanSlotsLastOfEqual(data, i, start_ts, end_ts, maxc, acc) ==
    IF i > Len(data.time) THEN acc
    ELSE LET tstr == data.time[i]
             ts == tstr.w + data.utc_offset_seconds
             skip == \/ ~tstr.ok
                     \/ ts < start_ts \/ ts > end_ts
                     \/ data.is_day[i] # 0
                     \/ data.cloud_cover[i] > maxc
             better == ~acc.cloud.some \/ data.cloud_cover[i] <= acc.cloud.v
         IN ScanSlotsLastOfEqual(data, i + 1, start_ts, end_ts, maxc,
                                 IF ~skip /\ better
                                 THEN [ok |-> TRUE, cloud |-> Some(data.cloud_cover[i]),
                                       time |-> Some(tstr)]
                                 ELSE acc)

\* the loop over enumerate(times), from index i on, with best_cloud/best_time so far
RECURSIVE ScanSlots(_, _, _, _, _, _)
ScanSlots(data, i, start_ts, end_ts, maxc, acc) ==
    IF i > Len(data.time) THEN acc
    ELSE LET tstr == data.time[i]
             ts == SampleTs(tstr, data.utc_offset_seconds)
             skip == \/ ~tstr.ok
                     \/ ts < start_ts \/ ts > end_ts
                     \/ data.is_day[i] # 0
                     \/ data.cloud_cover[i] > maxc
             better == ~acc.cloud.some \/ data.cloud_cover[i] < acc.cloud.v
         IN ScanSlots(data, i + 1, start_ts, end_ts, maxc,
                      IF ~skip /\ better
                      THEN Slot(TRUE, Some(data.cloud_cover[i]), Some(tstr))
                      ELSE acc)

\* meteo_best_slot_around_peak, after fetch_json returned data
meteo_best_slot_around_peak(data, peak_dt_utc, window_hours, maxc) ==
    IF \/ data.time = <<>>
       \/ Len(data.time) # Len(data.cloud_cover)
       \/ Len(data.time) # Len(data.is_day)
    THEN NoSlot
    ELSE LET peak_local_ts == peak_dt_utc + data.utc_offset_seconds
         IN ScanSlots(data, 1, peak_local_ts - window_hours * HOUR,
                      peak_local_ts + window_hours * HOUR, maxc, NoSlot)

Hourly(time, cloud_cover, is_day, off) ==
    [fetch |-> "ok", time |-> time, cloud_cover |-> cloud_cover, is_day |-> is_day,
     utc_offset_seconds |-> off]
MeteoError == [Hourly(<<>>, <<>>, <<>>, 0) EXCEPT !.fetch = "error"]
MeteoUnfetched == [Hourly(<<>>, <<>>, <<>>, 0) EXCEPT !.fetch = "unfetched"]

-----------------------------------------------------------------------------
(* Inputs of a run *)

\* what the ledger file can hold before a run
InitFiles ==
    {NoFile, File(<<>>), File(<<OpenTok>>)}
    \cup {File(Serialize(l)) : l \in WrittenLedgers \cup MalformedLedgers}

Configs == [now_cd : Cooldowns, forecast_cd : Cooldowns, nowcast_enabled : BOOLEAN]

\* meteo_gate_now: (is_day == 0), cloud
Gates == [is_night : BOOLEAN, cloud : {30, 90}]

\* kp_now: float(last[1]), in tenths
KpCurrents == {55, 65}

\* kp_forecast_max_next_hours: (best_kp, best_time, best_dt)
Forecast(kp, time) == [kp |-> kp, time |-> time, dt |-> parse_noaa_time_utc(time)]
Forecasts == {Forecast(NoForecastKp, "unknown"), Forecast(72, PeakA)}

NowcastFeeds ==
    {FeedError,
     Feed("other", <<>>, NoRec),
     Feed("list", <<RowItem(<<JStr(<<"t">>), JStr(<<"k">>)>>), ScalarItem>>, NoRec),
     Feed("list", <<RecItem([k \in {"time_tag", "kp_index"} |->
                              IF k = "kp_index" THEN JStr(<<"7", ".", "5">>)
                              ELSE JStr(<<"t">>)])>>, NoRec)}

\* hourly answers: one dark sample at 02:00 or 07:00 wall-clock, at UTC offset 0 or +1h,
\* a clouded one, and a pair of clear ones
Meteos ==
    {MeteoError,
     Hourly(<<TimeStr(4 * HOUR)>>, <<90>>, <<0>>, 0),
     Hourly(<<TimeStr(3 * HOUR), TimeStr(4 * HOUR)>>, <<40, 20>>, <<0, 0>>, 0)}
    \cup {Hourly(<<TimeStr(w)>>, <<30>>, <<0>>, off) :
            w \in {2 * HOUR, 7 * HOUR}, off \in {0, HOUR}}

NoGate == [is_night |-> FALSE, cloud |-> 0]
NoForecast == Forecast(NoForecastKp, "unknown")
NoConfig == [now_cd |-> 0, forecast_cd |-> 0, nowcast_enabled |-> FALSE]
NoFn == [f |-> "none"]

\* the values the variables of a run hold while no run is in progress
RunIdle ==
    /\ err = "" /\ cfg = NoConfig /\ state = EmptyLedger /\ now_ts = 0
    /\ gate = NoGate /\ kp_current = 0 /\ fc = NoForecast
    /\ nowcast_feed = FeedUnfetched /\ nowcast = NoReading /\ meteo = MeteoUnfetched
    /\ send_now_flag = FALSE /\ send_forecast_flag = FALSE /\ best = NoSlot
    /\ priority = "" /\ written = 0

\* the same values, as the next state
ResetRun ==
    /\ err' = "" /\ cfg' = NoConfig /\ state' = EmptyLedger /\ now_ts' = 0
    /\ gate' = NoGate /\ kp_current' = 0 /\ fc' = NoForecast
    /\ nowcast_feed' = FeedUnfetched /\ nowcast' = NoReading /\ meteo' = MeteoUnfetched
    /\ send_now_flag' = FALSE /\ send_forecast_flag' = FALSE /\ best' = NoSlot
    /\ priority' = "" /\ written' = 0

\* runs are started until LastRun, one default cooldown after the last of Times, and
\* the clock runs on for one more cooldown, to MaxClock
LastRun == MaxTick * HOUR + now_cd_default
MaxClock == LastRun + now_cd_default

\* nothing delivered yet
NoOutbox == [c \in Classes |-> {}]

\* the world where the clock is not followed
WorldIdle == clock = 0 /\ env = NoConfig /\ outbox = NoOutbox

Init ==
    /\ fs \in [Paths -> {NoFile}] \cup {[q \in Paths |-> IF q = PATH THEN f ELSE NoFile] :
                                          f \in InitFiles}
    /\ fs0 = fs
    /\ pc = "idle"
    /\ RunIdle
    /\ fn_in = NoFn /\ fn_out = NoFn
    /\ WorldIdle

-----------------------------------------------------------------------------
(* main(), one action per call that can fail or that decides *)

\* an exception leaves main(): the process ends, nothing else is touched
Fail(why) ==
    /\ pc' = "failed"
    /\ err' = why

\* main() 734-765: the configuration, load_state, utc_now_ts
StartRunWith(c, t) ==
    /\ pc = "idle"
    /\ cfg' = c
    /\ now_ts' = t
    /\ state' = load_state(fs[PATH])
    /\ fs0' = fs
    /\ pc' = "gate"
    /\ UNCHANGED <<fs, err, gate, kp_current, fc, nowcast_feed, nowcast, meteo,
                   send_now_flag, send_forecast_flag, best, priority, written,
                   fn_in, fn_out>>

\* a run under any configuration, at any time
StartRun == \E c \in Configs, t \in Times : StartRunWith(c, t)

\* main() 768: meteo_gate_now
MeteoGateNow ==
    /\ pc = "gate"
    /\ \/ \E g \in Gates : gate' = g /\ pc' = "kp_now" /\ err' = err
       \/ Fail("sky_fetch") /\ gate' = gate
    /\ UNCHANGED <<fs, fs0, cfg, state, now_ts, kp_current, fc, nowcast_feed, nowcast,
                   meteo, send_now_flag, send_forecast_flag, best, priority, written,
                   fn_in, fn_out>>

\* main() 771: kp_now
KpNow ==
    /\ pc = "kp_now"
    /\ \/ \E k \in KpCurrents : kp_current' = k /\ pc' = "kp_forecast" /\ err' = err
       \/ Fail("kp_now_fetch") /\ kp_current' = kp_current
    /\ UNCHANGED <<fs, fs0, cfg, state, now_ts, gate, fc, nowcast_feed, nowcast,
                   meteo, send_now_flag, send_forecast_flag, best, priority, written,
                   fn_in, fn_out>>

\* main() 772: kp_forecast_max_next_hours
KpForecast ==
    /\ pc = "kp_forecast"
    /\ \/ \E f \in Forecasts : fc' = f /\ pc' = "nowcast" /\ err' = err
       \/ Fail("forecast_fetch") /\ fc' = fc
    /\ UNCHANGED <<fs, fs0, cfg, state, now_ts, gate, kp_current, nowcast_feed, nowcast,
                   meteo, send_now_flag, send_forecast_flag, best, priority, written,
                   fn_in, fn_out>>

\* main() 773-776: if nowcast_enabled: nowcast_kp, nowcast_time = kp_nowcast()
Nowcast ==
    /\ pc = "nowcast"
    /\ IF cfg.nowcast_enabled
       THEN \E feed \in NowcastFeeds :
              /\ nowcast_feed' = feed
              /\ IF kp_nowcast(feed).raised
                 THEN Fail("nowcast") /\ nowcast' = nowcast
                 ELSE nowcast' = kp_nowcast(feed) /\ pc' = "now_decision" /\ err' = err
       ELSE /\ pc' = "now_decision"
            /\ UNCHANGED <<nowcast_feed, nowcast, err>>
    /\ UNCHANGED <<fs, fs0, cfg, state, now_ts, gate, kp_current, fc,
                   meteo, send_now_flag, send_forecast_flag, best, priority, written,
                   fn_in, fn_out>>

\* main() 782-790: the NOW decision
NowDecision ==
    /\ pc = "now_decision"
    /\ IF kp_current >= now_min_kp /\ gate.is_night /\ gate.cloud <= max_cloud
       THEN LET r == can_send_now(state, "NOW", cfg.now_cd, now_ts)
            IN IF r.raised
               THEN Fail("ledger") /\ send_now_flag' = send_now_flag
               ELSE send_now_flag' = r.ok /\ pc' = "forecast_decision" /\ err' = err
       ELSE send_now_flag' = FALSE /\ pc' = "forecast_decision" /\ err' = err
    /\ UNCHANGED <<fs, fs0, cfg, state, now_ts, gate, kp_current, fc, nowcast_feed,
                   nowcast, meteo, send_forecast_flag, best, priority, written,
                   fn_in, fn_out>>

\* main() 792-808: the FORECAST decision
ForecastDecision ==
    /\ pc = "forecast_decision"
    /\ IF fc.kp >= forecast_min_kp /\ fc.dt.some
       THEN \E data \in Meteos :
              /\ meteo' = data
              /\ IF data.fetch # "ok"
                 THEN Fail("sky_fetch") /\ UNCHANGED <<best, send_forecast_flag>>
                 ELSE LET slot == meteo_best_slot_around_peak(data, fc.dt.v,
                                                              peak_window_h, max_cloud)
                          r == should_send_forecast(state, fc.time, now_ts, cfg.forecast_cd)
                      IN /\ best' = slot
                         /\ IF slot.ok /\ r.raised
                            THEN Fail("ledger") /\ send_forecast_flag' = send_forecast_flag
                            ELSE /\ send_forecast_flag' = (slot.ok /\ r.ok)
                                 /\ pc' = "decided"
                                 /\ err' = err
       ELSE /\ pc' = "decided"
            /\ UNCHANGED <<meteo, best, send_forecast_flag, err>>
    /\ UNCHANGED <<fs, fs0, cfg, state, now_ts, gate, kp_current, fc, nowcast_feed,
                   nowcast, send_now_flag, priority, written, fn_in, fn_out>>

\* main() 810-812: nothing to send
NoAlert ==
    /\ pc = "decided"
    /\ ~(send_now_flag \/ send_forecast_flag)
    /\ pc' = "returned"
    /\ UNCHANGED <<fs, fs0, err, cfg, state, now_ts, gate, kp_current, fc, nowcast_feed,
                   nowcast, meteo, send_now_flag, send_forecast_flag, best, priority,
                   written, fn_in, fn_out>>

\* main() 814-835, build_email_pro 503-512: the priority of the subject
BuildEmail ==
    /\ pc = "decided"
    /\ send_now_flag \/ send_forecast_flag
    /\ priority' = pick_priority_emoji(send_now_flag, send_forecast_flag,
                                       NowGateOk(gate), BestOk(best), nowcast.kp)
    /\ pc' = "send"
    /\ UNCHANGED <<fs, fs0, err, cfg, state, now_ts, gate, kp_current, fc, nowcast_feed,
                   nowcast, meteo, send_now_flag, send_forecast_flag, best,
                   written, fn_in, fn_out>>

SendGmailFailureSwallowed ==
    /\ pc = "send"
    /\ \/ pc' = "mark" /\ err' = err
       \/ pc' = "mark" /\ err' = "send"
    /\ UNCHANGED <<fs, fs0, cfg, state, now_ts, gate, kp_current, fc, nowcast_feed,
                   nowcast, meteo, send_now_flag, send_forecast_flag, best, priority,
                   written, fn_in, fn_out>>

\* main() 837-844: send_gmail returns or raises
SendGmail ==
    /\ pc = "send"
    /\ \/ pc' = "mark" /\ err' = err
       \/ Fail("send")
    /\ UNCHANGED <<fs, fs0, cfg, state, now_ts, gate, kp_current, fc, nowcast_feed,
                   nowcast, meteo, send_now_flag, send_forecast_flag, best, priority,
                   written, fn_in, fn_out>>

\* marking FORECAST and the peak whichever class fired
MarkedForecastAlways(st) ==
    mark_forecast_peak(mark_sent(st, "FORECAST", now_ts), fc.time)

MarkedNow(st) == IF send_now_flag THEN mark_sent(st, "NOW", now_ts) ELSE st
MarkedForecast(st) ==
    IF send_forecast_flag
    THEN mark_forecast_peak(mark_sent(st, "FORECAST", now_ts), fc.time)
    ELSE st

\* main() 846-850: mark_sent, mark_forecast_peak
MarkSent ==
    /\ pc = "mark"
    /\ state' = MarkedForecast(MarkedNow(state))
    /\ pc' = "save"
    /\ UNCHANGED <<fs, fs0, err, cfg, now_ts, gate, kp_current, fc, nowcast_feed,
                   nowcast, meteo, send_now_flag, send_forecast_flag, best, priority,
                   written, fn_in, fn_out>>

\* main() 852: save_state(state_file, state)
SaveState ==
    /\ pc = "save"
    /\ fs' = save_state(fs, PATH, state)
    /\ pc' = "done"
    /\ UNCHANGED <<fs0, err, cfg, state, now_ts, gate, kp_current, fc, nowcast_feed,
                   nowcast, meteo, send_now_flag, send_forecast_flag, best, priority,
                   written, fn_in, fn_out>>

\* the process exits; the next scheduled run starts from the disk alone
EndRun ==
    /\ pc \in {"done", "returned", "failed"}
    /\ pc' = "idle"
    /\ fs0' = fs
    /\ ResetRun
    /\ UNCHANGED <<fs, fn_in, fn_out>>

Next ==
    \/ StartRun /\ UNCHANGED world
    \/ MeteoGateNow /\ UNCHANGED world
    \/ KpNow /\ UNCHANGED world
    \/ KpForecast /\ UNCHANGED world
    \/ Nowcast /\ UNCHANGED world
    \/ NowDecision /\ UNCHANGED world
    \/ ForecastDecision /\ UNCHANGED world
    \/ NoAlert /\ UNCHANGED world
    \/ BuildEmail /\ UNCHANGED world
    \/ SendGmail /\ UNCHANGED world
    \/ MarkSent /\ UNCHANGED world
    \/ SaveState /\ UNCHANGED world
    \/ EndRun /\ UNCHANGED world

Spec == Init /\ [][Next]_vars

-----------------------------------------------------------------------------
(* save_state step by step, with a crash of the process at any point *)

\* the ledgers main() saves: at least one class was marked
SavedLedgers == {l \in WrittenLedgers : \E c \in Classes : l.sent[c].tag = "int"}

\* a ".tmp" left behind by an earlier crash
TmpFiles == {NoFile, File(<<OpenTok>>)}

InitSave ==
    /\ fs \in {[q \in Paths |-> IF q = PATH THEN f ELSE t] : f \in InitFiles, t \in TmpFiles}
    /\ fs0 = fs
    /\ pc = "save_open"
    /\ state \in SavedLedgers
    /\ err = "" /\ cfg = NoConfig /\ now_ts = 0
    /\ gate = NoGate /\ kp_current = 0 /\ fc = NoForecast
    /\ nowcast_feed = FeedUnfetched /\ nowcast = NoReading /\ meteo = MeteoUnfetched
    /\ send_now_flag = FALSE /\ send_forecast_flag = FALSE /\ best = NoSlot
    /\ priority = "" /\ written = 0
    /\ fn_in = NoFn /\ fn_out = NoFn
    /\ WorldIdle

\* save_state 66-67: open(tmp, "w")
SaveOpen ==
    /\ pc = "save_open"
    /\ fs' = open_w(fs, TmpPath(PATH))
    /\ written' = 0
    /\ pc' = "save_write"
    /\ UNCHANGED <<fs0, err, cfg, state, now_ts, gate, kp_current, fc, nowcast_feed,
                   nowcast, meteo, send_now_flag, send_forecast_flag, best, priority,
                   fn_in, fn_out>>

\* save_state 68: json.dump writes the next piece
SaveWrite ==
    /\ pc = "save_write"
    /\ written < Len(Serialize(state))
    /\ fs' = write_tok(fs, TmpPath(PATH), Serialize(state)[written + 1])
    /\ written' = written + 1
    /\ UNCHANGED <<fs0, pc, err, cfg, state, now_ts, gate, kp_current, fc, nowcast_feed,
                   nowcast, meteo, send_now_flag, send_forecast_flag, best, priority,
                   fn_in, fn_out>>

\* save_state 69: os.replace(tmp, path), once the dump is written and the file closed
SaveReplace ==
    /\ pc = "save_write"
    /\ written = Len(Serialize(state))
    /\ fs' = os_replace(fs, TmpPath(PATH), PATH)
    /\ pc' = "save_done"
    /\ UNCHANGED <<fs0, err, cfg, state, now_ts, gate, kp_current, fc, nowcast_feed,
                   nowcast, meteo, send_now_flag, send_forecast_flag, best, priority,
                   written, fn_in, fn_out>>

\* the process dies between two steps of save_state
Crash ==
    /\ pc \in {"save_open", "save_write"}
    /\ pc' = "crashed"
    /\ UNCHANGED <<fs, fs0, err, cfg, state, now_ts, gate, kp_current, fc, nowcast_feed,
                   nowcast, meteo, send_now_flag, send_forecast_flag, best, priority,
                   written, fn_in, fn_out>>

NextSave ==
    \/ SaveOpen /\ UNCHANGED world
    \/ SaveWrite /\ UNCHANGED world
    \/ SaveReplace /\ UNCHANGED world
    \/ Crash /\ UNCHANGED world

SpecSave == InitSave /\ [][NextSave]_vars

-----------------------------------------------------------------------------
(* The pure functions on inputs drawn from bounded sets *)

NowcastKps == {None, Some(65), Some(NowcastHighKp), Some(75)}

CooldownInputs ==
    [f : {"cooldown"}, st : WrittenLedgers, key : Classes,
     cd : Cooldowns \cup {HOUR}, now : Times]

PriorityInputs ==
    [f : {"priority"}, send_now_flag : BOOLEAN, send_forecast_flag : BOOLEAN,
     now_gate_ok : BOOLEAN, best_ok : BOOLEAN, nowcast_kp : NowcastKps]

\* hourly series for the locator: samples one hour apart from `start`, each with a
\* well-formed or malformed time string, a cloud cover and an is_day flag
SlotSamples == [ok : BOOLEAN, cloud : {20, 40, 80}, is_day : {0, 1}]
SlotSeries == UNION {[1..n -> SlotSamples] : n \in 0..MaxSeries}
SeriesData(s, start, off) ==
    Hourly([i \in 1..Len(s) |-> IF s[i].ok THEN TimeStr(start + (i - 1) * HOUR)
                                           ELSE BadTimeStr],
           [i \in 1..Len(s) |-> s[i].cloud],
           [i \in 1..Len(s) |-> s[i].is_day], off)
\* answers whose cloud_cover or is_day array is one element short
ShortArrays(d) ==
    {[d EXCEPT !.cloud_cover = Tail(d.cloud_cover)], [d EXCEPT !.is_day = Tail(d.is_day)]}
SlotData ==
    LET whole == {SeriesData(s, start, off) :
                    s \in SlotSeries, start \in {HOUR, 5 * HOUR}, off \in {0, HOUR}}
        clear == {SeriesData([i \in 1..n |-> [ok |-> TRUE, cloud |-> 20, is_day |-> 0]],
                             3 * HOUR, 0) : n \in 1..MaxSeries}
    IN whole \cup UNION {ShortArrays(d) : d \in clear}
SlotInputs == [f : {"slot"}, data : SlotData, peak_dt : {parse_noaa_time_utc(PeakA).v}]

\* the last record of a nowcast feed: a value under kp_key and a time under time_key,
\* either of them possibly null or absent, and possibly a second value and time under
\* keys of lower priority
FeedValues ==
    {JNull, JNum(65), JStr(<<"6", "P">>), JStr(<<"7", ",", "3", "+">>), JStr(<<"x">>)}
FeedTimes == {JNull, JStr(<<"t">>)}
LastRecords ==
    [kp_key : {"kp", "kp_index", "kp_value"}, kp_val : FeedValues, has_kp : BOOLEAN,
     time_key : {"time_tag", "timestamp"}, time_val : FeedTimes, has_time : BOOLEAN,
     more : BOOLEAN]
RecordOf(l) ==
    LET keys == (IF l.has_kp THEN {l.kp_key} ELSE {})
                  \cup (IF l.has_time THEN {l.time_key} ELSE {})
                  \cup (IF l.more THEN {"value", "date"} ELSE {})
    IN [k \in keys |-> IF k = l.kp_key THEN l.kp_val
                       ELSE IF k = l.time_key THEN l.time_val
                       ELSE IF k = "value" THEN JNum(10)
                       ELSE JStr(<<"u">>)]
\* the cell a table row carries for a field of the record: null when it has none
CellOf(rec, keys) == FirstPresent(rec, keys, 1)
OlderRecord == [k \in {"time_tag", "kp"} |-> IF k = "kp" THEN JNum(20) ELSE JStr(<<"s">>)]
\* the feed shapes: header row and rows, list of records, dict wrapper, single record
TableFeed(rec) ==
    Feed("list", <<RowItem(<<JStr(<<"t">>), JStr(<<"k">>)>>),
                   RowItem(<<JStr(<<"s">>), JNum(20)>>),
                   RowItem(<<CellOf(rec, TimeKeys), CellOf(rec, KpKeys)>>)>>, NoRec)
RecordsFeed(rec) == Feed("list", <<RecItem(OlderRecord), RecItem(rec)>>, NoRec)
WrapperFeed(rec) ==
    Feed("dict", <<RecItem(OlderRecord), RecItem(rec)>>, [k \in {"data"} |-> JList])
SingleFeed(rec) == Feed("dict", <<>>, rec)
NowcastInputs == [f : {"nowcast"}, last : LastRecords]

\* strings of up to MaxStr characters; FloatOf is exact for those that carry at most
\* one digit after a separator
KpChars == {"6", "3", ",", ".", "+", "-", "P", " "}
KpStrings ==
    {s \in UNION {[1..n -> KpChars] : n \in 0..MaxStr} :
        \A i \in 1..Len(s) : ~(/\ i + 2 <= Len(s)
                                /\ s[i] \in {",", "."}
                                /\ s[i + 1] \in Digits
                                /\ s[i + 2] \in Digits)}
KpFloatInputs == [f : {"kp_float"}, v : {JNull, JNum(65)} \cup {JStr(s) : s \in KpStrings}]

InitFn ==
    /\ fs = [q \in Paths |-> NoFile]
    /\ fs0 = fs
    /\ pc = "fn_call"
    /\ RunIdle
    /\ fn_in \in CooldownInputs \cup PriorityInputs \cup SlotInputs
                \cup NowcastInputs \cup KpFloatInputs
    /\ fn_out = NoFn
    /\ WorldIdle

\* can_send_now(state, key, cooldown_seconds, now_ts)
CallCanSendNow ==
    /\ pc = "fn_call"
    /\ fn_in.f = "cooldown"
    /\ fn_out' = [f |-> "can_send_now", st |-> fn_in.st, now |-> fn_in.now,
                  r |-> can_send_now(fn_in.st, fn_in.key, fn_in.cd, fn_in.now)]
    /\ pc' = "fn_done"
    /\ UNCHANGED <<fs, fs0, err, cfg, state, now_ts, gate, kp_current, fc, nowcast_feed,
                   nowcast, meteo, send_now_flag, send_forecast_flag, best, priority,
                   written, fn_in>>

\* mark_sent(state, key, now), then can_send_now(state, key, cooldown_seconds, now2)
CallMarkSentThenCanSendNow ==
    /\ pc = "fn_call"
    /\ fn_in.f = "cooldown"
    /\ \E now2 \in Times :
         LET marked == mark_sent(fn_in.st, fn_in.key, fn_in.now)
         IN fn_out' = [f |-> "mark_sent", st |-> marked, now |-> now2,
                       r |-> can_send_now(marked, fn_in.key, fn_in.cd, now2)]
    /\ pc' = "fn_done"
    /\ UNCHANGED <<fs, fs0, err, cfg, state, now_ts, gate, kp_current, fc, nowcast_feed,
                   nowcast, meteo, send_now_flag, send_forecast_flag, best, priority,
                   written, fn_in>>

\* pick_priority_emoji(...)
CallPickPriority ==
    /\ pc = "fn_call"
    /\ fn_in.f = "priority"
    /\ fn_out' = [f |-> "pick_priority_emoji",
                  r |-> pick_priority_emoji(fn_in.send_now_flag, fn_in.send_forecast_flag,
                                            fn_in.now_gate_ok, fn_in.best_ok,
                                            fn_in.nowcast_kp)]
    /\ pc' = "fn_done"
    /\ UNCHANGED <<fs, fs0, err, cfg, state, now_ts, gate, kp_current, fc, nowcast_feed,
                   nowcast, meteo, send_now_flag, send_forecast_flag, best, priority,
                   written, fn_in>>

\* meteo_best_slot_around_peak(lat, lon, tz, peak_dt_utc, window_hours, max_cloud)
CallBestSlot ==
    /\ pc = "fn_call"
    /\ fn_in.f = "slot"
    /\ fn_out' = [f |-> "meteo_best_slot_around_peak",
                  r |-> meteo_best_slot_around_peak(fn_in.data, fn_in.peak_dt,
                                                    peak_window_h, max_cloud)]
    /\ pc' = "fn_done"
    /\ UNCHANGED <<fs, fs0, err, cfg, state, now_ts, gate, kp_current, fc, nowcast_feed,
                   nowcast, meteo, send_now_flag, send_forecast_flag, best, priority,
                   written, fn_in>>

\* kp_nowcast() on each shape of feed carrying the same last record
CallKpNowcast ==
    /\ pc = "fn_call"
    /\ fn_in.f = "nowcast"
    /\ LET rec == RecordOf(fn_in.last)
       IN fn_out' = [f |-> "kp_nowcast",
                     table |-> kp_nowcast(TableFeed(rec)),
                     records |-> kp_nowcast(RecordsFeed(rec)),
                     wrapper |-> kp_nowcast(WrapperFeed(rec)),
                     single |-> kp_nowcast(SingleFeed(rec))]
    /\ pc' = "fn_done"
    /\ UNCHANGED <<fs, fs0, err, cfg, state, now_ts, gate, kp_current, fc, nowcast_feed,
                   nowcast, meteo, send_now_flag, send_forecast_flag, best, priority,
                   written, fn_in>>

\* to_kp_float(v)
CallToKpFloat ==
    /\ pc = "fn_call"
    /\ fn_in.f = "kp_float"
    /\ fn_out' = [f |-> "to_kp_float", r |-> to_kp_float(fn_in.v)]
    /\ pc' = "fn_done"
    /\ UNCHANGED <<fs, fs0, err, cfg, state, now_ts, gate, kp_current, fc, nowcast_feed,
                   nowcast, meteo, send_now_flag, send_forecast_flag, best, priority,
                   written, fn_in>>

NextFn ==
    \/ CallCanSendNow /\ UNCHANGED world
    \/ CallMarkSentThenCanSendNow /\ UNCHANGED world
    \/ CallPickPriority /\ UNCHANGED world
    \/ CallBestSlot /\ UNCHANGED world
    \/ CallKpNowcast /\ UNCHANGED world
    \/ CallToKpFloat /\ UNCHANGED world

SpecFn == InitFn /\ [][NextFn]_vars

-----------------------------------------------------------------------------
(* Scheduled, non-overlapping runs under an advancing clock: each run reads *)
(* the clock once, at its start, and its cooldowns from the same            *)
(* environment; a run ends (fetch_json has a timeout, main() has no loop),  *)
(* and time passes between runs                                             *)

\* the default cooldown for both classes, or a zero or negative one for one of them;
\* the nowcast, which no cooldown depends on, is switched off
ClockConfigs ==
    {c \in Configs : /\ ~c.nowcast_enabled
                     /\ <<c.now_cd, c.forecast_cd>> \in
                          {<<now_cd_default, now_cd_default>>, <<0, now_cd_default>>,
                           <<now_cd_default, -HOUR>>}}

\* the sky a run under the clock can meet: clear by night or by day now; around the
\* peak a clouded hour or two clear ones
ClockGates == {g \in Gates : g.cloud <= max_cloud}
ClockMeteos == {m \in Meteos : m.fetch = "ok" /\ m.time[1].w \in {3 * HOUR, 4 * HOUR}}

InitClock ==
    /\ fs = [q \in Paths |-> NoFile]
    /\ fs0 = fs
    /\ pc = "idle"
    /\ RunIdle
    /\ fn_in = NoFn /\ fn_out = NoFn
    /\ clock = 0
    /\ env \in ClockConfigs
    /\ outbox = NoOutbox

\* time passes between two runs
Tick ==
    /\ pc = "idle"
    /\ clock < MaxClock
    /\ clock' = clock + HOUR
    /\ UNCHANGED <<fs, fs0, pc, err, cfg, state, now_ts, gate, kp_current, fc,
                   nowcast_feed, nowcast, meteo, send_now_flag, send_forecast_flag, best,
                   priority, written, fn_in, fn_out, env, outbox>>

\* main() 736-765 at this moment: the configuration of the environment, utc_now_ts()
StartRunAtClock ==
    /\ clock <= LastRun
    /\ StartRunWith(env, clock)
    /\ UNCHANGED world

\* main() 837-844: an alert that send_gmail delivered is in the recipients' mailbox
Delivered(c) == IF c = "NOW" THEN send_now_flag ELSE send_forecast_flag
SendGmailDelivers ==
    /\ SendGmail
    /\ outbox' = IF pc' = "mark" /\ err' = ""
                  THEN [c \in Classes |->
                          IF Delivered(c) THEN outbox[c] \cup {now_ts} ELSE outbox[c]]
                  ELSE outbox
    /\ UNCHANGED <<clock, env>>

\* the steps of a run once it has started
RunSteps ==
    \/ MeteoGateNow /\ gate' \in ClockGates \cup {NoGate} /\ UNCHANGED world
    \/ KpNow /\ UNCHANGED world
    \/ KpForecast /\ UNCHANGED world
    \/ Nowcast /\ UNCHANGED world
    \/ NowDecision /\ UNCHANGED world
    \/ ForecastDecision /\ meteo' \in ClockMeteos \cup {MeteoUnfetched} /\ UNCHANGED world
    \/ NoAlert /\ UNCHANGED world
    \/ BuildEmail /\ UNCHANGED world
    \/ SendGmailDelivers
    \/ MarkSent /\ UNCHANGED world
    \/ SaveState /\ UNCHANGED world
    \/ EndRun /\ UNCHANGED world

NextClock == Tick \/ StartRunAtClock \/ RunSteps

SpecClock == InitClock /\ [][NextClock]_vars /\ SF_vars(Tick) /\ WF_vars(RunSteps)

-----------------------------------------------------------------------------
(* Claims *)

\* the ledger the current run loaded
Loaded == load_state(fs0[PATH])

\* positions of main() after the NOW decision, and after both decisions
AfterNowDecision ==
    \/ pc \in {"forecast_decision", "decided", "returned", "send", "mark", "save", "done"}
    \/ pc = "failed" /\ err = "send"
AfterDecisions ==
    \/ pc \in {"decided", "returned", "send", "mark", "save", "done"}
    \/ pc = "failed" /\ err = "send"

\* C1: the ledger in memory is marked and the ledger file is written only after
\* send_gmail returned in this run: while the run has not passed a successful send,
\* and in every run that ended by an exception (a fetch or the send failed) or
\* returned with no alert, the ledger file and the ledger in memory are as loaded.
C1_LedgerWrittenOnlyAfterSend ==
    /\ pc \in {"gate", "kp_now", "kp_forecast", "nowcast", "now_decision",
               "forecast_decision", "decided", "returned", "send", "failed"}
         => fs = fs0 /\ state = Loaded
    /\ err # "" => fs = fs0 /\ state = Loaded
    /\ pc \in {"mark", "save"} => fs = fs0
    /\ pc \in {"mark", "save", "done"} => send_now_flag \/ send_forecast_flag

\* C1 witness: an alert was decided, send_gmail raised, the ledger file is as loaded
C1_Witness ==
    /\ pc = "failed" /\ err = "send"
    /\ send_now_flag /\ send_forecast_flag
    /\ fs0[PATH].exists /\ fs = fs0

\* what the NOW decision must be, from the inputs of the run and the loaded ledger
NowFires ==
    /\ kp_current >= now_min_kp
    /\ gate.is_night
    /\ gate.cloud <= max_cloud
    /\ now_ts - (IF Loaded.sent["NOW"].tag = "int" THEN Loaded.sent["NOW"].v ELSE 0)
         >= cfg.now_cd

\* C2: once main() has made the NOW decision, send_now_flag is true exactly when
\* kp_current >= now_min_kp, it is night, cloud_now <= max_cloud and
\* now_ts - last_sent[NOW] (0 with no entry) >= the NOW cooldown.
C2_NowFiresIff ==
    AfterNowDecision => (send_now_flag <=> NowFires)

\* C2 witness: scenario 3, NOW sent 3600 s ago with cooldown 7200 s, index 6.5 at
\* threshold 6.0, night, cloud 30 <= 70: suppressed
C2_Witness ==
    /\ pc = "decided"
    /\ kp_current = 65 /\ gate.is_night /\ gate.cloud = 30
    /\ Loaded.sent["NOW"].tag = "int" /\ now_ts - Loaded.sent["NOW"].v = 3600
    /\ cfg.now_cd = 7200
    /\ ~send_now_flag

\* the samples of the hourly answer that qualify by their instants: dark, clear
\* enough, and the instant of the local wall-clock reading within the window of T
QualifiesByInstant(i) ==
    LET instant == meteo.time[i].w - meteo.utc_offset_seconds
    IN /\ meteo.time[i].ok
       /\ meteo.is_day[i] = 0
       /\ meteo.cloud_cover[i] <= max_cloud
       /\ instant >= fc.dt.v - peak_window_h * HOUR
       /\ instant <= fc.dt.v + peak_window_h * HOUR

\* C3: for every utc_offset_seconds, when a sample qualifies by its instant a window
\* is found, the reported time and cloud cover are those of such a sample, and
\* FORECAST fires once the cooldown has elapsed; a reported window is never a
\* sample whose instant is outside the window of T.
C3_SameEpochSpace ==
    (AfterDecisions /\ meteo.fetch = "ok") =>
        LET idx == 1..Len(meteo.time)
            reported(i) == /\ best.time = Some(meteo.time[i])
                           /\ best.cloud = Some(meteo.cloud_cover[i])
        IN /\ (\E i \in idx : QualifiesByInstant(i)) =>
                 /\ best.ok
                 /\ now_ts - last_ts(Loaded, "FORECAST") >= cfg.forecast_cd
                      => send_forecast_flag
           /\ best.ok => \E i \in idx : QualifiesByInstant(i) /\ reported(i)

\* C4 as claimed: can_send_now is false right after mark_sent with the same now for
\* every cooldown_seconds, and true once now' - now >= cooldown_seconds.
C4_FalseRightAfterMark ==
    (pc = "fn_done" /\ fn_out.f = "mark_sent") =>
        /\ fn_out.now = fn_in.now => ~fn_out.r.ok
        /\ fn_out.now - fn_in.now >= fn_in.cd => fn_out.r.ok

\* C4 as amended: can_send_now(state, key, cd, now) is now - last_sent.get(key, 0)
\* >= cd; right after mark_sent(state, key, now) it is false at the same now for
\* every cd > 0, and true at every now' with now' - now >= cd.
C4_FalseRightAfterMarkPositive ==
    /\ (pc = "fn_done" /\ fn_out.f = "can_send_now") =>
         LET e == fn_in.st.sent[fn_in.key]
         IN /\ ~fn_out.r.raised
            /\ fn_out.r.ok <=>
                 (fn_in.now - (IF e.tag = "int" THEN e.v ELSE 0) >= fn_in.cd)
    /\ (pc = "fn_done" /\ fn_out.f = "mark_sent") =>
         /\ (fn_in.cd > 0 /\ fn_out.now = fn_in.now) => ~fn_out.r.ok
         /\ fn_out.now - fn_in.now >= fn_in.cd => fn_out.r.ok

\* C4 witness: a positive cooldown, mark_sent and can_send_now at the same now
C4_Witness ==
    /\ pc = "fn_done" /\ fn_out.f = "mark_sent"
    /\ fn_in.cd > 0 /\ fn_out.now = fn_in.now /\ fn_in.now > 0
    /\ ~fn_out.r.ok

\* what the FORECAST decision must be when only the cooldown gates it
ForecastFires ==
    /\ fc.kp >= forecast_min_kp
    /\ fc.dt.some
    /\ best.ok
    /\ now_ts - (IF Loaded.sent["FORECAST"].tag = "int" THEN Loaded.sent["FORECAST"].v
                 ELSE 0) >= cfg.forecast_cd

\* C5: the FORECAST cooldown always gates FORECAST: once main() has decided,
\* send_forecast_flag is true exactly when the forecast meets the threshold, a
\* window was found and now_ts - last_sent[FORECAST] >= the cooldown, whether or
\* not the peak identity differs from forecast.last_peak_time.
C5_ForecastCooldownAlwaysGates ==
    AfterDecisions => (send_forecast_flag <=> ForecastFires)

\* C5 witness: the peak identity changed, the cooldown has not elapsed: suppressed
C5_Witness ==
    /\ pc = "decided"
    /\ fc.kp >= forecast_min_kp /\ best.ok
    /\ Loaded.last_peak # "" /\ Loaded.last_peak # fc.time
    /\ now_ts - last_ts(Loaded, "FORECAST") < cfg.forecast_cd
    /\ ~send_forecast_flag

\* the nowcast feed gave no usable answer
NowcastFeedFails ==
    \/ nowcast_feed.fetch = "error"
    \/ nowcast_feed.fetch = "ok" /\ nowcast_parse(nowcast_feed).raised
    \/ nowcast_feed.fetch = "ok" /\ nowcast_feed.shape = "other"

\* C6: kp_nowcast never raises: no run ends by an exception of kp_nowcast; a failed
\* fetch, an exception while parsing and an unknown shape give (None, None); and
\* the NOW and FORECAST decisions of such a run are those of the other inputs.
C6_NowcastNeverRaises ==
    /\ err # "nowcast"
    /\ NowcastFeedFails => nowcast = NoReading
    /\ (NowcastFeedFails /\ AfterDecisions) =>
         /\ send_now_flag <=> NowFires
         /\ send_forecast_flag <=> ForecastFires

\* C6 witness: parsing the nowcast raised, the run went on and NOW fires
C6_Witness ==
    /\ pc = "send"
    /\ nowcast_feed.fetch = "ok" /\ nowcast_parse(nowcast_feed).raised
    /\ send_now_flag

\* the ledger the next run will load
Persisted == load_state(fs[PATH])

\* C7 as claimed: for every cooldown, a run that saved the ledger left no class with
\* a last_sent below the one it loaded.
C7_NeverRewound ==
    pc = "done" => \A c \in Classes : last_ts(Persisted, c) >= last_ts(Loaded, c)

\* C7 as amended: with a cooldown >= 0 for the class, a run that saved the ledger
\* left that class's last_sent at or above the one it loaded.
C7_NeverRewoundNonNegativeCooldown ==
    pc = "done" =>
        /\ cfg.now_cd >= 0 => last_ts(Persisted, "NOW") >= last_ts(Loaded, "NOW")
        /\ cfg.forecast_cd >= 0
             => last_ts(Persisted, "FORECAST") >= last_ts(Loaded, "FORECAST")

\* C7 witness: NOW fired over an earlier entry and the entry moved forward
C7_Witness ==
    /\ pc = "done" /\ send_now_flag /\ cfg.now_cd >= 0
    /\ Loaded.sent["NOW"].tag = "int" /\ Loaded.sent["NOW"].v > 0
    /\ last_ts(Persisted, "NOW") > last_ts(Loaded, "NOW")

\* C8: at every point of save_state, crash or not, the ledger file is the complete
\* previous file or the complete dump of the new ledger, the next run loads the
\* previous ledger or the new one, and a finished save_state leaves the new one
\* and no temporary file.
C8_AtomicReplace ==
    /\ fs[PATH] = fs0[PATH] \/ fs[PATH] = File(Serialize(state))
    /\ Persisted = Loaded \/ Persisted = state
    /\ pc = "save_done" => Persisted = state /\ ~fs[TMP].exists

\* C8 witness: a crash in the middle of the dump, the ledger file as it was
C8_Witness ==
    /\ pc = "crashed"
    /\ written > 0 /\ written < Len(Serialize(state))
    /\ fs0[PATH].exists /\ IsJson(fs0[PATH].content)
    /\ fs[PATH] = fs0[PATH]
    /\ Loaded # state

\* the ledger file is missing, unreadable, not JSON, or JSON that is not a mapping
\* with an integer-valued last_sent map
MissingOrCorrupt(f) ==
    \/ ~f.exists
    \/ ~IsJson(f.content)
    \/ load_state(f).top # "dict"
    \/ load_state(f).last_sent # "dict"
    \/ \E c \in Classes : load_state(f).sent[c].tag = "bad"

\* C9: with a missing or corrupt ledger file no call on the ledger raises: the run
\* never ends by an exception of can_send_now, should_send_forecast, mark_sent or
\* mark_forecast_peak.
C9_LoadNeverFailsRun ==
    MissingOrCorrupt(fs0[PATH]) => err # "ledger"

\* C10: pick_priority_emoji by its rules in order: High when the nowcast is present,
\* >= 7.0 and the now gate passes, whatever the flags; otherwise High when NOW fires
\* and the gate passes; otherwise Medium when NOW does not fire, FORECAST fires and
\* the window is good; otherwise Low.
C10_PriorityRulesInOrder ==
    (pc = "fn_done" /\ fn_out.f = "pick_priority_emoji") =>
        LET rule1 == fn_in.nowcast_kp.some /\ fn_in.nowcast_kp.v >= 70 /\ fn_in.now_gate_ok
            rule2 == fn_in.send_now_flag /\ fn_in.now_gate_ok
            rule3 == (~fn_in.send_now_flag) /\ fn_in.send_forecast_flag /\ fn_in.best_ok
        IN /\ rule1 => fn_out.r = "High"
           /\ (~rule1 /\ rule2) => fn_out.r = "High"
           /\ (~rule1 /\ ~rule2 /\ rule3) => fn_out.r = "Medium"
           /\ (~rule1 /\ ~rule2 /\ ~rule3) => fn_out.r = "Low"

\* C10 witness: nowcast 7.5 with the gate passing and neither class firing: High
C10_Witness ==
    /\ pc = "fn_done" /\ fn_out.f = "pick_priority_emoji"
    /\ fn_in.nowcast_kp = Some(75) /\ fn_in.now_gate_ok
    /\ ~fn_in.send_now_flag /\ ~fn_in.send_forecast_flag
    /\ fn_out.r = "High"

\* sample i of an hourly answer qualifies: its time string parses, its shifted epoch
\* lies within the bounds around the peak, it is dark, and its cloud cover is in range
SlotQualifies(d, i, peak_dt) ==
    /\ d.time[i].ok
    /\ SampleTs(d.time[i], d.utc_offset_seconds)
           >= peak_dt + d.utc_offset_seconds - peak_window_h * HOUR
    /\ SampleTs(d.time[i], d.utc_offset_seconds)
           <= peak_dt + d.utc_offset_seconds + peak_window_h * HOUR
    /\ d.is_day[i] = 0
    /\ d.cloud_cover[i] <= max_cloud

\* the qualifying positions; none when the series is empty or the arrays differ in length
SlotCandidates(d, peak_dt) ==
    IF d.time = <<>> \/ Len(d.time) # Len(d.cloud_cover) \/ Len(d.time) # Len(d.is_day)
    THEN {}
    ELSE {i \in 1..Len(d.time) : SlotQualifies(d, i, peak_dt)}

\* the answer with its malformed-timestamp samples removed from all three arrays
WithoutMalformed(d) ==
    LET idx == SelectSeq([i \in 1..Len(d.time) |-> i], LAMBDA i : d.time[i].ok)
    IN IF Len(d.time) # Len(d.cloud_cover) \/ Len(d.time) # Len(d.is_day) THEN d
       ELSE Hourly([k \in 1..Len(idx) |-> d.time[idx[k]]],
                   [k \in 1..Len(idx) |-> d.cloud_cover[idx[k]]],
                   [k \in 1..Len(idx) |-> d.is_day[idx[k]]], d.utc_offset_seconds)

\* C11: meteo_best_slot_around_peak returns the qualifying sample (in the window, dark,
\* cloud <= max_cloud) with the lowest cloud cover, the earliest one among equals; it
\* returns (False, None, None) when the series is empty, the arrays differ in length or
\* no sample qualifies; and a sample with a malformed timestamp is skipped, the result
\* being that of the series without it.
C11_LowestCloudEarliest ==
    fn_out.f = "meteo_best_slot_around_peak" =>
        LET d == fn_in.data
            r == fn_out.r
            Q == SlotCandidates(d, fn_in.peak_dt)
        IN /\ Q = {} => r = NoSlot
           /\ Q # {} =>
                \E i \in Q :
                    /\ r = Slot(TRUE, Some(d.cloud_cover[i]), Some(d.time[i]))
                    /\ \A j \in Q :
                          \/ d.cloud_cover[j] > d.cloud_cover[i]
                          \/ (d.cloud_cover[j] = d.cloud_cover[i] /\ j >= i)
           /\ r = meteo_best_slot_around_peak(WithoutMalformed(d), fn_in.peak_dt,
                                              peak_window_h, max_cloud)

\* a malformed sample stands before two qualifying ones of equal cloud cover, and the
\* first of the two is returned
C11_Witness ==
    /\ fn_out.f = "meteo_best_slot_around_peak"
    /\ Len(fn_in.data.time) = 3
    /\ ~fn_in.data.time[1].ok
    /\ SlotCandidates(fn_in.data, fn_in.peak_dt) = {2, 3}
    /\ fn_in.data.cloud_cover[2] = fn_in.data.cloud_cover[3]
    /\ fn_out.r.ok
    /\ fn_out.r.time = Some(fn_in.data.time[2])

\* the pair the last record stands for: its value and time under the key of highest
\* priority that holds one, no reading when either is missing or the value is no number
ReadingOf(l) ==
    LET kp_val == IF l.has_kp /\ l.kp_val.t # "null" THEN l.kp_val
                  ELSE IF l.more THEN JNum(10) ELSE JNull
        time_val == IF l.has_time /\ l.time_val.t # "null" THEN l.time_val
                    ELSE IF l.more THEN JStr(<<"u">>) ELSE JNull
    IN IF kp_val.t = "null" \/ time_val.t = "null" \/ ~to_kp_float(kp_val).some
       THEN NoReading
       ELSE Reading(to_kp_float(kp_val), Some(time_val.s))

\* C12: kp_nowcast returns the same (value, time tag) for a table with a header row, a
\* list of records, a dict wrapper and a single record that carry an equivalent last
\* record: the value under the first present key of kp, estimated_kp, k_index, kp_index,
\* kp_value, value and the time under the first present key of time_tag, time, datetime,
\* timestamp, date; a record missing either field yields no reading.
C12_ShapesAgree ==
    fn_out.f = "kp_nowcast" =>
        /\ fn_out.records = ReadingOf(fn_in.last)
        /\ fn_out.wrapper = ReadingOf(fn_in.last)
        /\ fn_out.single = ReadingOf(fn_in.last)
        /\ fn_out.table = ReadingOf(fn_in.last)

\* C13: to_kp_float returns a number unchanged; for a string it turns commas into dots
\* and returns the leading signed decimal number, discarding what follows it; a string
\* without a parseable leading number yields None.
C13_LeadingNumberOrNone ==
    fn_out.f = "to_kp_float" =>
        LET v == fn_in.v
            s == comma_to_dot(strip(v.s))
        IN /\ v.t = "num" => fn_out.r = Some(v.n)
           /\ v.t = "str" /\ MatchAt(s, 1) # 0 =>
                fn_out.r = Some(FloatOf(SubSeq(s, 1, MatchAt(s, 1) - 1)))
           /\ v.t = "str" /\ MatchAt(s, 1) = 0 => fn_out.r = None

\* C14: the NOW and FORECAST timers are independent: the NOW decision depends on the
\* ledger through last_sent[NOW] alone and the FORECAST decision through
\* last_sent[FORECAST] alone, and a run changes only the entries of the classes that
\* fired: last_sent[NOW] only if NOW fired, last_sent[FORECAST] and
\* forecast.last_peak_time only if FORECAST fired.
C14_TimersIndependent ==
    /\ AfterNowDecision => (send_now_flag <=> NowFires)
    /\ AfterDecisions => (send_forecast_flag <=> ForecastFires)
    /\ pc \in {"returned", "failed"} => fs = fs0
    /\ pc = "done" =>
         /\ Persisted.sent["NOW"] =
               (IF send_now_flag THEN IntEntry(now_ts) ELSE Loaded.sent["NOW"])
         /\ Persisted.sent["FORECAST"] =
               (IF send_forecast_flag THEN IntEntry(now_ts) ELSE Loaded.sent["FORECAST"])
         /\ Persisted.last_peak =
               (IF send_forecast_flag THEN fc.time ELSE Loaded.last_peak)

\* C14 witness: NOW fired while FORECAST, above its threshold with a window found, was
\* held by its own cooldown; the saved ledger has a new NOW entry and the old
\* FORECAST entry and peak
C14_Witness ==
    /\ pc = "done"
    /\ send_now_flag /\ ~send_forecast_flag
    /\ fc.kp >= forecast_min_kp /\ best.ok
    /\ Loaded.sent["NOW"].tag = "int" /\ Loaded.sent["FORECAST"].tag = "int"
    /\ Loaded.sent["NOW"].v # Loaded.sent["FORECAST"].v
    /\ Loaded.last_peak # fc.time
    /\ Persisted.sent["NOW"] # Loaded.sent["NOW"]
    /\ Persisted.sent["FORECAST"] = Loaded.sent["FORECAST"]
    /\ Persisted.last_peak = Loaded.last_peak

\* main() has built the alert and sends or has sent it
AlertBuilt == pc \in {"send", "mark", "save", "done"} \/ (pc = "failed" /\ err = "send")

\* C17: every alert main() sends has priority High or Medium, never Low: when NOW
\* fired the gate is open and the priority is High; when only FORECAST fired a window
\* with best_cloud <= max_cloud was found and the priority is Medium, or High when a
\* nowcast >= 7.0 coincides with an open gate.
C17_SentAlertsNeverLow ==
    AlertBuilt =>
        /\ priority \in {"High", "Medium"}
        /\ send_now_flag =>
             /\ gate.is_night /\ gate.cloud <= max_cloud
             /\ priority = "High"
        /\ ~send_now_flag =>
             /\ send_forecast_flag
             /\ best.ok /\ best.cloud.some /\ best.cloud.v <= max_cloud
             /\ priority = (IF /\ nowcast.kp.some /\ nowcast.kp.v >= NowcastHighKp
                               /\ gate.is_night /\ gate.cloud <= max_cloud
                            THEN "High" ELSE "Medium")

\* C17 witness: an alert was sent for FORECAST alone, under a closed gate: Medium
C17_Witness ==
    /\ pc = "mark"
    /\ ~send_now_flag /\ send_forecast_flag
    /\ ~gate.is_night
    /\ priority = "Medium"

\* the cooldown configured for a class
CooldownOf(c) == IF c = "NOW" THEN env.now_cd ELSE env.forecast_cd

\* the class is Idle: can_send_now is true of the ledger on disk at this moment
Cooled(c) ==
    LET r == can_send_now(Persisted, c, CooldownOf(c), clock)
    IN ~r.raised /\ r.ok

\* a decision made over a cooled-down ledger with threshold and gate satisfied fires
FiresWhenCooled ==
    /\ (/\ pc = "forecast_decision"
        /\ kp_current >= now_min_kp /\ gate.is_night /\ gate.cloud <= max_cloud
        /\ now_ts - last_ts(Loaded, "NOW") >= cfg.now_cd) => send_now_flag
    /\ (/\ pc = "decided"
        /\ fc.kp >= forecast_min_kp /\ best.ok
        /\ now_ts - last_ts(Loaded, "FORECAST") >= cfg.forecast_cd) => send_forecast_flag

\* C15: no alert class is ever permanently disabled: from every ledger that runs have
\* written, as the clock advances can_send_now of each class eventually becomes true,
\* it stays true until that class next fires, and a run made then with threshold and
\* gate satisfied fires the class again.
C15_NeverPermanentlyDisabled ==
    /\ \A c \in Classes : []<>Cooled(c)
    /\ [][\A c \in Classes :
            (Cooled(c) /\ Persisted'.sent[c] = Persisted.sent[c]) => Cooled(c)']_vars
    /\ []FiresWhenCooled

\* C15 witness: NOW fired, cooled down for its two hours and fired again
C15_Witness ==
    /\ pc = "done" /\ send_now_flag
    /\ env.now_cd = now_cd_default
    /\ Loaded.sent["NOW"] = IntEntry(now_cd_default)
    /\ Persisted.sent["NOW"] = IntEntry(2 * now_cd_default)
    /\ outbox["NOW"] = {now_cd_default, 2 * now_cd_default}

\* the run timestamp of the latest delivered alert of a class, 0 when there is none
LastDelivered(c) ==
    IF outbox[c] = {} THEN 0 ELSE CHOOSE t \in outbox[c] : \A u \in outbox[c] : u <= t

\* this step is send_gmail returning for an alert of class c
NowDelivered(c) == pc = "send" /\ pc' = "mark" /\ err' = "" /\ Delivered(c)

\* the ledger between runs holds, for each class, the run timestamp of its latest
\* delivered alert and nothing for a class without one
LedgerOfDelivered ==
    pc = "idle" =>
        \A c \in Classes :
            Persisted.sent[c] = (IF outbox[c] = {} THEN Absent ELSE IntEntry(LastDelivered(c)))

\* the decisions of a run count the delivered alerts only
DecidedOnDelivered ==
    /\ (pc \in {"forecast_decision", "decided", "send"} \/ (pc = "failed" /\ err = "send"))
         => (send_now_flag <=>
               /\ kp_current >= now_min_kp /\ gate.is_night /\ gate.cloud <= max_cloud
               /\ now_ts - LastDelivered("NOW") >= CooldownOf("NOW"))
    /\ (pc \in {"decided", "send"} \/ (pc = "failed" /\ err = "send"))
         => (send_forecast_flag <=>
               /\ fc.kp >= forecast_min_kp /\ fc.dt.some /\ best.ok
               /\ now_ts - LastDelivered("FORECAST") >= CooldownOf("FORECAST"))

====
